---- MODULE Spec2Model ----
(***************************************************************************)
(* Model of aws_transcribe_integration_example.py: the notebook that lists *)
(* audio objects, submits one transcription job per unprocessed object,    *)
(* polls the jobs, parses the output documents and appends the records to  *)
(* the raw results table.  One notebook run is one invocation; the results *)
(* table, the bucket and the service-side jobs survive between runs.       *)
(*                                                                         *)
(* Strings are sequences of tokens: a token is a maximal run of            *)
(* alphanumeric characters or one of the separators "/", ".", " ", "_".    *)
(* Python dicts are records (functions on their keys), Python lists are    *)
(* sequences, None is the empty sequence.                                  *)
(* The clock counts half seconds, the resolution of time.sleep(0.5).       *)
(***************************************************************************)
EXTENDS Integers, Sequences, FiniteSets, TLC

\* ---------------------------------------------------------------- bounds
MaxInvocations == 2
MaxWaitSeconds == 3
MaxPollInterval == 2
MaxJobs == 2

\* ------------------------------------------------------- strings and keys
KeyAX == <<"a", "/", "x", ".", "mp3">>
KeyBX == <<"b", "/", "x", ".", "mp3">>
KeyY == <<"y", " ", "1", ".", "wav">>
KeyTxt == <<"notes", ".", "txt">>
Keys == {KeyAX, KeyBX, KeyY, KeyTxt}

\* the order in which the bucket lists its keys
KeyOrder == <<KeyAX, KeyBX, KeyTxt, KeyY>>

AudioExtensions == {"mp3", "mp4", "wav", "flac", "m4a", "ogg", "webm"}

\* key.endswith(('.mp3', '.mp4', ...))
IsAudioKey(key) ==
    /\ Len(key) >= 2
    /\ key[Len(key) - 1] = "."
    /\ key[Len(key)] \in AudioExtensions

\* key.split('/')[-1]
RECURSIVE LastSlash(_, _)
LastSlash(key, i) ==
    IF i = 0 THEN 0
    ELSE IF key[i] = "/" THEN i ELSE LastSlash(key, i - 1)

FileName(key) == SubSeq(key, LastSlash(key, Len(key)) + 1, Len(key))

\* file_name.replace('.', '_').replace(' ', '_')
Sanitize(file_name) ==
    [i \in 1..Len(file_name) |->
        IF file_name[i] \in {".", " "} THEN "_" ELSE file_name[i]]

\* int(time.time()) on the half-second clock
Seconds(t) == t \div 2

\* f"transcribe_{...}_{int(time.time())}"
JobName(file_name, t) == [base |-> Sanitize(file_name), ts |-> Seconds(t)]

\* dict.get(key, default)
Get(d, k, default) == IF k \in DOMAIN d THEN d[k] ELSE default

None == <<>>

VARIABLES
    pc,                 \* position in the notebook
    invocation,         \* number of the current notebook run
    now,                \* time.time(), in half seconds
    s3,                 \* keys in the bucket
    table_exists,       \* whether raw_table exists
    raw,                \* rows of raw_table
    unprocessed_files,  \* rows returned by get_unprocessed_audio_files
    submitted_jobs,
    start_replies,      \* the service's reply to each create-job request of this run
    start_calls,        \* the calls of start_transcribe_job, all runs
    svc_jobs,           \* jobs accepted by the transcription service
    max_wait_seconds,   \* poll_for_completion: max_wait_minutes * 60
    poll_interval,
    input_names,        \* the job_names argument of poll_for_completion
    job_names,
    remaining,
    completed,
    poll_i,             \* position of the for loop in job_names
    start_time,
    round,              \* number of the current poll round
    polls,              \* per job, the statuses its queries returned, in order
    added_round,        \* per job, the round that appended it to completed
    completed_jobs,     \* the value poll_for_completion returned
    proc_i,             \* position of the processing loop in completed_jobs
    transcription_records,
    last_fetch,         \* the job and the outcome of the latest document fetch
    call_transcripts,   \* rows of the derived call_transcripts table
    rl_pc,              \* position in RateLimit-FoundationModels.py
    endpoints,          \* the endpoints w.serving_endpoints.list() returned
    endpoint_i,         \* position of main's for loop in endpoints
    restricted_count,
    approved_count,
    error_count,
    ai_gateway,         \* per endpoint name, the rate limits the workspace holds
    put_calls,          \* the calls of put_ai_gateway: endpoint name and outcome
    get_calls           \* the calls of serving_endpoints.get: endpoint name and outcome

listVars == <<unprocessed_files>>
submitVars == <<submitted_jobs, start_replies, start_calls, svc_jobs>>
pollVars == <<max_wait_seconds, poll_interval, input_names, job_names, remaining,
              completed, poll_i, start_time, round, polls, added_round,
              completed_jobs>>
storeVars == <<s3, table_exists, raw, call_transcripts>>
procVars == <<proc_i, transcription_records, last_fetch>>

rateVars == <<rl_pc, endpoints, endpoint_i, restricted_count, approved_count,
              error_count, ai_gateway, put_calls, get_calls>>

vars == <<pc, invocation, now, storeVars, listVars, submitVars, pollVars, procVars,
          rateVars>>

\* the rate-limit script is a separate program: it is not running
RateOff ==
    /\ rl_pc = "off"
    /\ endpoints = <<>>
    /\ endpoint_i = 0
    /\ restricted_count = 0
    /\ approved_count = 0
    /\ error_count = 0
    /\ ai_gateway = <<>>
    /\ put_calls = <<>>
    /\ get_calls = <<>>

\* ------------------------------------------------------------------ Lister
\* audio_files of get_unprocessed_audio_files, in listing order
RECURSIVE AudioFiles(_, _)
AudioFiles(contents, i) ==
    IF i > Len(KeyOrder) THEN <<>>
    ELSE IF KeyOrder[i] \in contents /\ IsAudioKey(KeyOrder[i])
         THEN <<[file_key |-> KeyOrder[i], file_name |-> FileName(KeyOrder[i])]>>
              \o AudioFiles(contents, i + 1)
         ELSE AudioFiles(contents, i + 1)

ProcessedFileNames(rows) == {rows[i].file_name : i \in 1..Len(rows)}

\* spark.table(raw_table).select("file_key").distinct()
ProcessedKeys(rows) == {rows[i].file_key : i \in 1..Len(rows)}

LeftAntiInner(files, processed) ==
    SelectSeq(files, LAMBDA f : f.file_key \in processed)

\* files_df.join(processed_df, "file_key", "left_anti")
LeftAnti(files, processed) ==
    SelectSeq(files, LAMBDA f : f.file_key \notin processed)

GetUnprocessedIgnoresTable(contents, exists, rows) == AudioFiles(contents, 1)

\* the results table can be read exactly when it exists
GetUnprocessedAudioFiles(contents, exists, rows) ==
    IF exists
    THEN LeftAnti(AudioFiles(contents, 1), ProcessedKeys(rows))
    ELSE AudioFiles(contents, 1)

\* a fresh Python session: no notebook variable is set
Fresh ==
    /\ unprocessed_files = <<>>
    /\ submitted_jobs = <<>>
    /\ start_replies = <<>>
    /\ max_wait_seconds = 0
    /\ poll_interval = 0
    /\ input_names = <<>>
    /\ job_names = <<>>
    /\ remaining = <<>>
    /\ completed = <<>>
    /\ poll_i = 0
    /\ start_time = 0
    /\ round = 0
    /\ polls = <<>>
    /\ added_round = <<>>
    /\ completed_jobs = <<>>
    /\ proc_i = 0
    /\ transcription_records = <<>>
    /\ last_fetch = <<>>

\* the first run of the notebook: no results table yet, no job at the service
Init ==
    /\ pc = "list"
    /\ invocation = 1
    /\ now \in {0, 1}
    /\ s3 \in SUBSET Keys
    /\ table_exists = FALSE
    /\ raw = <<>>
    /\ call_transcripts = <<>>
    /\ start_calls = <<>>
    /\ svc_jobs = {}
    /\ Fresh
    /\ RateOff

ListFiles ==
    /\ pc = "list"
    /\ unprocessed_files' = GetUnprocessedAudioFiles(s3, table_exists, raw)
    /\ pc' = "submit"
    /\ UNCHANGED <<invocation, now, storeVars, submitVars, pollVars, procVars>>
    /\ UNCHANGED rateVars

\* ---------------------------------------------------------------- Submitter
Raised == [raised |-> TRUE]
IsRaised(r) == "raised" \in DOMAIN r

SvcNames == {j.job_name : j \in svc_jobs}

\* replies the service can give to a create-job request: it refuses a name
\* it already knows, and may refuse any request
StartReplies(job_name) ==
    IF job_name \in SvcNames THEN {FALSE} ELSE BOOLEAN

StartTranscribeJobRaises(file_key, file_name, t, accepted) ==
    IF accepted
    THEN [job_name |-> JobName(file_name, t), status |-> "SUBMITTED",
          file_key |-> file_key, file_name |-> file_name,
          media_uri |-> file_key]
    ELSE Raised

StartTranscribeJob(file_key, file_name, t, accepted) ==
    IF accepted
    THEN [job_name |-> JobName(file_name, t), status |-> "SUBMITTED",
          file_key |-> file_key, file_name |-> file_name,
          media_uri |-> file_key]
    ELSE [job_name |-> JobName(file_name, t), status |-> "FAILED",
          file_key |-> file_key, file_name |-> file_name,
          error |-> "rejected"]

\* time.sleep(d): the times at which a sleep of d half seconds started at t
\* returns (a later return of the poll sleep is a longer poll_interval)
SleepTo(t, d) == {t + d}

\* one iteration of "for row in unprocessed_files.collect()"
SubmitJob ==
    /\ pc = "submit"
    /\ Len(submitted_jobs) < Len(unprocessed_files)
    /\ LET row == unprocessed_files[Len(submitted_jobs) + 1]
       IN \E accepted \in StartReplies(JobName(row.file_name, now)) :
            LET job_result ==
                    StartTranscribeJob(row.file_key, row.file_name, now, accepted)
            IN /\ start_calls' = Append(start_calls,
                                       [file_key |-> row.file_key,
                                        invocation |-> invocation,
                                        job_name |-> JobName(row.file_name, now)])
               /\ start_replies' = Append(start_replies, accepted)
               /\ svc_jobs' = IF accepted
                                THEN svc_jobs \cup
                                     {[job_name |-> JobName(row.file_name, now),
                                       media |-> row.file_key]}
                                ELSE svc_jobs
               /\ IF IsRaised(job_result)
                  THEN /\ pc' = "aborted"
                       /\ UNCHANGED <<submitted_jobs, now>>
                  ELSE /\ submitted_jobs' = Append(submitted_jobs, job_result)
                       /\ now' \in SleepTo(now, 1)
                       /\ pc' = "submit"
    /\ UNCHANGED <<invocation, storeVars, listVars, pollVars, procVars>>
    /\ UNCHANGED rateVars

\* ---------------------------------------------------------------- Poll Loop
\* the TranscriptionJob part of a get_transcription_job response (QUEUED is
\* handled as IN_PROGRESS is)
JobResponses(job_name) ==
    {[TranscriptionJobStatus |-> "IN_PROGRESS"],
     [TranscriptionJobStatus |-> "FAILED", FailureReason |-> "reason"],
     [TranscriptionJobStatus |-> "COMPLETED",
      Transcript |-> [TranscriptFileUri |-> <<job_name>>]],
     [TranscriptionJobStatus |-> "COMPLETED"]}

\* what get_transcription_job can do: raise, or return a job
QueryOutcomes(job_name) == {Raised} \cup JobResponses(job_name)

CheckTranscriptionStatus(job_name, outcome) ==
    IF IsRaised(outcome)
    THEN [job_name |-> job_name, status |-> "ERROR", error |-> "raised"]
    ELSE [job_name |-> job_name,
          status |-> outcome.TranscriptionJobStatus,
          transcript_uri |->
              Get(Get(outcome, "Transcript", <<>>), "TranscriptFileUri", None),
          failure_reason |-> Get(outcome, "FailureReason", None)]

IsTerminalOnlyFailed(status) == status \in {"FAILED"}

\* status['status'] in ['COMPLETED', 'FAILED']
IsTerminal(status) == status \in {"COMPLETED", "FAILED"}

RECURSIVE SubmittedNamesAll(_)
SubmittedNamesAll(jobs) ==
    IF jobs = <<>> THEN <<>>
    ELSE <<Head(jobs).job_name>> \o SubmittedNamesAll(Tail(jobs))

\* [job['job_name'] for job in submitted_jobs if job['status'] == 'SUBMITTED']
RECURSIVE SubmittedNames(_)
SubmittedNames(jobs) ==
    IF jobs = <<>> THEN <<>>
    ELSE (IF Head(jobs).status = "SUBMITTED" THEN <<Head(jobs).job_name>> ELSE <<>>)
         \o SubmittedNames(Tail(jobs))

Range(seq) == {seq[i] : i \in 1..Len(seq)}

LoopCondWrongUnit(names, t, t0, max_wait) == names # <<>> /\ (t - t0) < max_wait

LoopCondNoTimeout(names, t, t0, max_wait) == names # <<>>

\* while job_names and (time.time() - start_time) < max_wait_seconds
LoopCond(names, t, t0, max_wait) == names # <<>> /\ (t - t0) < 2 * max_wait

\* poll_for_completion up to the while loop, for the arguments of the call
PollEnter(names, max_wait, interval) ==
    /\ input_names' = names
    /\ max_wait_seconds' = max_wait
    /\ poll_interval' = interval
    /\ polls' = [n \in Range(names) |-> <<>>]
    /\ added_round' = [n \in Range(names) |-> 0]
    /\ remaining' = <<>>
    /\ round' = 0
    /\ poll_i' = 0
    /\ completed_jobs' = <<>>
    /\ IF names = <<>>
       THEN /\ pc' = "process"
            /\ UNCHANGED <<job_names, completed, start_time>>
       ELSE /\ job_names' = names
            /\ completed' = <<>>
            /\ start_time' = now
            /\ pc' = "while"

\* the arguments the notebook passes, on the scale of the bounds
CallMaxWait == MaxWaitSeconds
CallPollInterval == MaxPollInterval

\* completed_jobs = poll_for_completion(job_names, ...), once every file is submitted
PollPipeline ==
    /\ pc = "submit"
    /\ Len(submitted_jobs) = Len(unprocessed_files)
    /\ PollEnter(SubmittedNames(submitted_jobs), CallMaxWait, CallPollInterval)
    /\ UNCHANGED <<invocation, now, storeVars, listVars, submitVars, procVars>>
    /\ UNCHANGED rateVars

\* a call of poll_for_completion with arguments of the caller's choice
PollCall ==
    /\ pc = "call"
    /\ PollEnter(input_names, max_wait_seconds, poll_interval)
    /\ UNCHANGED <<invocation, now, storeVars, listVars, submitVars, procVars>>
    /\ UNCHANGED rateVars

\* rounds start at least one second apart, so a call makes at most
\* max_wait_seconds of them; the guard on round only keeps the model finite
RoundCap == max_wait_seconds + 1

\* the test of the while loop; when it fails the function returns completed
\* and its locals are gone
PollWhile ==
    /\ pc = "while"
    /\ IF LoopCond(job_names, now, start_time, max_wait_seconds)
       THEN /\ round < RoundCap
            /\ remaining' = <<>>
            /\ poll_i' = 1
            /\ round' = round + 1
            /\ pc' = "for"
            /\ UNCHANGED <<completed_jobs, job_names, completed, start_time,
                           polls, added_round>>
       ELSE /\ completed_jobs' = completed
            /\ pc' = "process"
            /\ job_names' = <<>>
            /\ remaining' = <<>>
            /\ completed' = <<>>
            /\ poll_i' = 0
            /\ round' = 0
            /\ start_time' = 0
            /\ polls' = <<>>
            /\ added_round' = <<>>
    /\ UNCHANGED <<invocation, now, storeVars, listVars, submitVars, procVars,
                   max_wait_seconds, poll_interval, input_names>>
    /\ UNCHANGED rateVars

\* the loop body as it would be if it kept every queried job outstanding
PollQueryKeepsAll ==
    /\ pc = "for"
    /\ poll_i <= Len(job_names)
    /\ LET job_name == job_names[poll_i]
       IN \E outcome \in QueryOutcomes(job_name) :
            LET status == CheckTranscriptionStatus(job_name, outcome)
            IN /\ polls' = [polls EXCEPT ![job_name] = Append(@, status.status)]
               /\ remaining' = Append(remaining, job_name)
               /\ IF IsTerminal(status.status)
                  THEN /\ completed' = Append(completed, status)
                       /\ added_round' = [added_round EXCEPT ![job_name] = round]
                  ELSE UNCHANGED <<completed, added_round>>
    /\ poll_i' = poll_i + 1
    /\ UNCHANGED <<pc, invocation, now, storeVars, listVars, submitVars, procVars,
                   max_wait_seconds, poll_interval, input_names, job_names,
                   start_time, round, completed_jobs>>
    /\ UNCHANGED rateVars

\* one iteration of "for job_name in job_names"
PollQuery ==
    /\ pc = "for"
    /\ poll_i <= Len(job_names)
    /\ LET job_name == job_names[poll_i]
       IN \E outcome \in QueryOutcomes(job_name) :
            LET status == CheckTranscriptionStatus(job_name, outcome)
            IN /\ polls' = [polls EXCEPT ![job_name] = Append(@, status.status)]
               /\ IF IsTerminal(status.status)
                  THEN /\ completed' = Append(completed, status)
                       /\ added_round' = [added_round EXCEPT ![job_name] = round]
                       /\ UNCHANGED remaining
                  ELSE /\ remaining' = Append(remaining, job_name)
                       /\ UNCHANGED <<completed, added_round>>
    /\ poll_i' = poll_i + 1
    /\ UNCHANGED <<pc, invocation, now, storeVars, listVars, submitVars, procVars,
                   max_wait_seconds, poll_interval, input_names, job_names,
                   start_time, round, completed_jobs>>
    /\ UNCHANGED rateVars

\* the end of a round as it would be if it updated the caller's list in place
PollRoundEndInPlace ==
    /\ pc = "for"
    /\ poll_i > Len(job_names)
    /\ job_names' = remaining
    /\ input_names' = remaining
    /\ IF remaining # <<>>
       THEN now' \in SleepTo(now, 2 * poll_interval)
       ELSE now' = now
    /\ pc' = "while"
    /\ UNCHANGED <<invocation, storeVars, listVars, submitVars, procVars,
                   max_wait_seconds, poll_interval, remaining,
                   completed, poll_i, start_time, round, polls, added_round,
                   completed_jobs>>
    /\ UNCHANGED rateVars

\* the end of a round: job_names = remaining, then the sleep
PollRoundEnd ==
    /\ pc = "for"
    /\ poll_i > Len(job_names)
    /\ job_names' = remaining
    /\ IF remaining # <<>>
       THEN now' \in SleepTo(now, 2 * poll_interval)
       ELSE now' = now
    /\ pc' = "while"
    /\ UNCHANGED <<invocation, storeVars, listVars, submitVars, procVars,
                   max_wait_seconds, poll_interval, input_names, remaining,
                   completed, poll_i, start_time, round, polls, added_round,
                   completed_jobs>>
    /\ UNCHANGED rateVars

\* ------------------------------------------------------------ Result Parser
\* an optional key of a dict: c is <<>> (the key is absent) or <<v>>
Opt(c, k) == IF c = <<>> THEN <<>> ELSE [x \in {k} |-> c[1]]
Maybe(S) == {<<>>} \cup {<<v>> : v \in S}

Seg0 == [speaker_label |-> "spk_0", start_time |-> "0.0", end_time |-> "1.0"]
Seg1 == [speaker_label |-> "spk_1", start_time |-> "1.0", end_time |-> "2.0"]
Item0 == [type |-> "pronunciation", start_time |-> "0.0", end_time |-> "1.0"]

\* the values a document can have under results.transcripts, results.items
\* and results.speaker_labels
TranscriptLists == {<<>>, << <<>> >>, << [transcript |-> "hello world"] >>}
ItemLists == {<<Item0>>}
SpeakerLabels == {<<>>, [segments |-> <<Seg0, Seg1>>], [segments |-> <<Seg1, Seg0>>]}

ResultsObjects ==
    {Opt(t, "transcripts") @@ Opt(i, "items") @@ Opt(l, "speaker_labels") :
       t \in Maybe(TranscriptLists), i \in Maybe(ItemLists),
       l \in Maybe(SpeakerLabels)}

\* the JSON documents the output location can hold
Docs == {<<>>} \cup {[results |-> r] : r \in ResultsObjects}

\* requests.get(...).json(): raises, or returns a document
FetchOutcomes == {Raised} \cup {[json |-> d] : d \in Docs}

ParseTranscriptionResult(outcome) ==
    IF IsRaised(outcome) THEN Raised
    ELSE LET transcript_data == outcome.json
             results == Get(transcript_data, "results", <<>>)
             transcripts == Get(results, "transcripts", << <<>> >>)
         IN IF Len(transcripts) = 0 THEN Raised
            ELSE [full_transcript |-> Get(transcripts[1], "transcript", ""),
                  items |-> Get(results, "items", <<>>),
                  speaker_labels |->
                      Get(Get(results, "speaker_labels", <<>>), "segments", <<>>),
                  raw_json |-> transcript_data]

\* next((f for f in submitted_jobs if f['job_name'] == job['job_name']), None),
\* as the position of f in submitted_jobs (0 for None)
RECURSIVE OriginalFile(_, _, _)
OriginalFile(jobs, job_name, i) ==
    IF i > Len(jobs) THEN 0
    ELSE IF jobs[i].job_name = job_name THEN i
         ELSE OriginalFile(jobs, job_name, i + 1)

\* job['status'] == 'COMPLETED' and job.get('transcript_uri')
HasTranscript(job) ==
    job.status = "COMPLETED" /\ Get(job, "transcript_uri", None) # None

TranscriptionRecord(job, parsed, jobs) ==
    LET o == OriginalFile(jobs, job.job_name, 1)
    IN [job_name |-> job.job_name,
        file_key |-> IF o # 0 THEN jobs[o].file_key ELSE None,
        file_name |-> IF o # 0 THEN jobs[o].file_name ELSE None,
        transcript_text |-> parsed.full_transcript]

\* the fetch outcomes the end-to-end runs draw from: one per way the parser
\* can go (fetch raises, no results, empty transcripts list, element without
\* transcript, well-formed)
RunOutcomes ==
    {Raised, [json |-> <<>>], [json |-> [results |-> [transcripts |-> <<>>]]],
     [json |-> [results |-> [transcripts |-> << <<>> >>, items |-> <<Item0>>]]],
     [json |-> [results |-> [transcripts |-> << [transcript |-> "hello world"] >>,
                             items |-> <<Item0>>,
                             speaker_labels |-> [segments |-> <<Seg0, Seg1>>]]]]}

\* the loop as it would be with the try around the whole loop
ProcessJobStopsAtError(outcomes) ==
    /\ pc = "process"
    /\ proc_i < Len(completed_jobs)
    /\ LET job == completed_jobs[proc_i + 1]
       IN IF HasTranscript(job)
          THEN \E outcome \in outcomes :
                 LET parsed == ParseTranscriptionResult(outcome)
                 IN /\ last_fetch' = <<[job_name |-> job.job_name, outcome |-> outcome]>>
                    /\ IF IsRaised(parsed)
                       THEN /\ pc' = "aborted"
                            /\ UNCHANGED transcription_records
                       ELSE /\ pc' = pc
                            /\ transcription_records' =
                                 Append(transcription_records,
                                        TranscriptionRecord(job, parsed, submitted_jobs))
          ELSE /\ last_fetch' = <<>>
               /\ UNCHANGED <<pc, transcription_records>>
    /\ proc_i' = proc_i + 1
    /\ UNCHANGED <<invocation, now, storeVars, listVars, submitVars, pollVars>>
    /\ UNCHANGED rateVars

\* one iteration of "for job in completed_jobs", the fetch drawing from outcomes
ProcessJob(outcomes) ==
    /\ pc = "process"
    /\ proc_i < Len(completed_jobs)
    /\ LET job == completed_jobs[proc_i + 1]
       IN IF HasTranscript(job)
          THEN \E outcome \in outcomes :
                 LET parsed == ParseTranscriptionResult(outcome)
                 IN /\ last_fetch' = <<[job_name |-> job.job_name, outcome |-> outcome]>>
                    /\ transcription_records' =
                         IF IsRaised(parsed) THEN transcription_records
                         ELSE Append(transcription_records,
                                     TranscriptionRecord(job, parsed, submitted_jobs))
          ELSE /\ last_fetch' = <<>>
               /\ UNCHANGED transcription_records
    /\ proc_i' = proc_i + 1
    /\ UNCHANGED <<pc, invocation, now, storeVars, listVars, submitVars, pollVars>>
    /\ UNCHANGED rateVars

\* -------------------------------------------------------------- Sink Writer
\* the append as it would be inside a try that logs the exception
WriteRawCaught ==
    /\ pc = "process"
    /\ proc_i = Len(completed_jobs)
    /\ IF transcription_records # <<>>
       THEN \E committed \in BOOLEAN :
              IF committed
              THEN /\ raw' = raw \o transcription_records
                   /\ table_exists' = TRUE
                   /\ pc' = "derive"
              ELSE /\ pc' = "derive"
                   /\ UNCHANGED <<raw, table_exists>>
       ELSE /\ pc' = "derive"
            /\ UNCHANGED <<raw, table_exists>>
    /\ UNCHANGED <<invocation, now, s3, call_transcripts, listVars, submitVars,
                   pollVars, procVars>>
    /\ UNCHANGED rateVars

\* the append of transcription_records to raw_table: it commits or it raises
WriteRaw ==
    /\ pc = "process"
    /\ proc_i = Len(completed_jobs)
    /\ IF transcription_records # <<>>
       THEN \E committed \in BOOLEAN :
              IF committed
              THEN /\ raw' = raw \o transcription_records
                   /\ table_exists' = TRUE
                   /\ pc' = "derive"
              ELSE /\ pc' = "aborted"
                   /\ UNCHANGED <<raw, table_exists>>
       ELSE /\ pc' = "derive"
            /\ UNCHANGED <<raw, table_exists>>
    /\ UNCHANGED <<invocation, now, s3, call_transcripts, listVars, submitVars,
                   pollVars, procVars>>
    /\ UNCHANGED rateVars

\* the SQL cells that rebuild call_transcripts and speaker_utterances from
\* raw_table; they fail when raw_table does not exist
DeriveTables ==
    /\ pc = "derive"
    /\ IF table_exists
       THEN /\ call_transcripts' = raw
            /\ pc' = "done"
       ELSE /\ pc' = "aborted"
            /\ UNCHANGED call_transcripts
    /\ UNCHANGED <<invocation, now, s3, table_exists, raw, listVars, submitVars,
                   pollVars, procVars>>
    /\ UNCHANGED rateVars

\* the longest a run can take, in half seconds, rounded up to whole seconds
RunPeriod == 2 * (Cardinality(Keys) + MaxWaitSeconds + MaxPollInterval + 1)

\* the next scheduled run of the notebook: a fresh Python session
Restart ==
    /\ pc \in {"done", "aborted"}
    /\ invocation < MaxInvocations
    /\ invocation' = invocation + 1
    /\ now' = invocation * RunPeriod
    /\ pc' = "list"
    /\ unprocessed_files' = <<>>
    /\ submitted_jobs' = <<>>
    /\ start_replies' = <<>>
    /\ max_wait_seconds' = 0
    /\ poll_interval' = 0
    /\ input_names' = <<>>
    /\ job_names' = <<>>
    /\ remaining' = <<>>
    /\ completed' = <<>>
    /\ poll_i' = 0
    /\ start_time' = 0
    /\ round' = 0
    /\ polls' = <<>>
    /\ added_round' = <<>>
    /\ completed_jobs' = <<>>
    /\ proc_i' = 0
    /\ transcription_records' = <<>>
    /\ last_fetch' = <<>>
    /\ UNCHANGED <<storeVars, start_calls, svc_jobs>>
    /\ UNCHANGED rateVars

Next ==
    \/ ListFiles
    \/ SubmitJob
    \/ PollPipeline
    \/ PollWhile
    \/ PollQuery
    \/ PollRoundEnd
    \/ ProcessJob(RunOutcomes)
    \/ WriteRaw
    \/ DeriveTables
    \/ Restart

Spec == Init /\ [][Next]_vars

\* ------------------------------------------- poll_for_completion on its own
\* the i-th of the jobs a caller holds: accepted submissions of one file in
\* different seconds
PoolJob(i) == StartTranscribeJob(KeyY, FileName(KeyY), 2 * i, TRUE)

\* a caller about to call poll_for_completion on up to MaxJobs accepted jobs,
\* with a maximum wait and a poll interval of its choice
InitPoll ==
    /\ pc = "call"
    /\ invocation = 1
    /\ now = 0
    /\ s3 = {KeyY}
    /\ table_exists = FALSE
    /\ raw = <<>>
    /\ call_transcripts = <<>>
    /\ \E n \in 0..MaxJobs :
         /\ unprocessed_files =
              [i \in 1..n |-> [file_key |-> KeyY, file_name |-> FileName(KeyY)]]
         /\ submitted_jobs = [i \in 1..n |-> PoolJob(i)]
         /\ start_replies = [i \in 1..n |-> TRUE]
         /\ start_calls = [i \in 1..n |->
                             [file_key |-> KeyY, invocation |-> 1,
                              job_name |-> PoolJob(i).job_name]]
         /\ svc_jobs = {[job_name |-> PoolJob(i).job_name, media |-> KeyY] :
                          i \in 1..n}
         /\ input_names = [i \in 1..n |-> PoolJob(i).job_name]
    /\ max_wait_seconds \in 1..MaxWaitSeconds
    /\ poll_interval \in 1..MaxPollInterval
    /\ job_names = <<>>
    /\ remaining = <<>>
    /\ completed = <<>>
    /\ poll_i = 0
    /\ start_time = 0
    /\ round = 0
    /\ polls = <<>>
    /\ added_round = <<>>
    /\ completed_jobs = <<>>
    /\ proc_i = 0
    /\ transcription_records = <<>>
    /\ last_fetch = <<>>
    /\ RateOff

NextPoll ==
    \/ PollCall
    \/ PollWhile
    \/ PollQuery
    \/ PollRoundEnd

SpecPoll == InitPoll /\ [][NextPoll]_vars
\* ------------------------------------------------- the parsing loop on its own
\* the status records poll_for_completion can return for a job
TerminalStatuses(job_name) ==
    {CheckTranscriptionStatus(job_name, o) : o \in
       {r \in JobResponses(job_name) : IsTerminal(r.TranscriptionJobStatus)}}

\* the notebook about to process up to MaxJobs jobs that poll_for_completion
\* returned, each with any terminal status
InitParse ==
    /\ pc = "process"
    /\ invocation = 1
    /\ now = 0
    /\ s3 = {KeyY}
    /\ table_exists = FALSE
    /\ raw = <<>>
    /\ call_transcripts = <<>>
    /\ \E n \in 0..MaxJobs :
         /\ unprocessed_files =
              [i \in 1..n |-> [file_key |-> KeyY, file_name |-> FileName(KeyY)]]
         /\ submitted_jobs = [i \in 1..n |-> PoolJob(i)]
         /\ start_replies = [i \in 1..n |-> TRUE]
         /\ start_calls = [i \in 1..n |->
                             [file_key |-> KeyY, invocation |-> 1,
                              job_name |-> PoolJob(i).job_name]]
         /\ svc_jobs = {[job_name |-> PoolJob(i).job_name, media |-> KeyY] :
                          i \in 1..n}
         /\ input_names = [i \in 1..n |-> PoolJob(i).job_name]
         /\ completed_jobs \in
              [1..n -> UNION {TerminalStatuses(PoolJob(i).job_name) : i \in 1..n}]
         /\ \A i \in 1..n : completed_jobs[i].job_name = PoolJob(i).job_name
    /\ max_wait_seconds = CallMaxWait
    /\ poll_interval = CallPollInterval
    /\ job_names = <<>>
    /\ remaining = <<>>
    /\ completed = <<>>
    /\ poll_i = 0
    /\ start_time = 0
    /\ round = 0
    /\ polls = <<>>
    /\ added_round = <<>>
    /\ proc_i = 0
    /\ transcription_records = <<>>
    /\ last_fetch = <<>>
    /\ RateOff

NextParse == ProcessJob(FetchOutcomes)

SpecParse == InitParse /\ [][NextParse]_vars

\* poll_for_completion keeps running: the notebook is one sequential thread
FairSpecPoll == SpecPoll /\ WF_vars(NextPoll)

\* the processing loop keeps running as well
FairSpecParse == SpecParse /\ WF_vars(NextParse)

Names(statuses) == {statuses[i].job_name : i \in 1..Len(statuses)}
AllInProgress(h) == \A n \in 1..Len(h) : h[n] = "IN_PROGRESS"
Elapsed == now - start_time

\* the loop test has failed: poll_for_completion is about to return completed
AtReturn == pc = "while" /\ ~LoopCond(job_names, now, start_time, max_wait_seconds)

\* C1: a job whose status query raised (status ERROR) is terminal at once: it
\* is not kept in the outstanding set and it is never queried again.
C1_ErrorIsTerminal ==
    \A j \in DOMAIN polls :
      \A n \in 1..Len(polls[j]) :
        polls[j][n] = "ERROR" =>
          /\ n = Len(polls[j])
          /\ j \notin Range(remaining)
          /\ pc = "while" => j \notin Range(job_names)

\* C2: a job whose queries return IN_PROGRESS k-1 times and then COMPLETED is
\* appended to completed in round k, once; while all its queries have returned
\* IN_PROGRESS it is not in completed; it is queried once in every round.
C2_CompletedInRoundK ==
    \A j \in DOMAIN polls :
      LET h == polls[j]
          k == Len(h)
      IN /\ (k >= 1 /\ AllInProgress(SubSeq(h, 1, k - 1)) /\ h[k] = "COMPLETED") =>
              /\ added_round[j] = k
              /\ Cardinality({i \in 1..Len(completed) :
                                completed[i].job_name = j
                                /\ completed[i].status = "COMPLETED"}) = 1
         /\ AllInProgress(h) =>
              /\ j \notin Names(completed)
              /\ added_round[j] = 0
              /\ pc = "while" => k = round
              /\ pc = "for" => k \in {round - 1, round}

C2_Witness ==
    /\ pc = "while"
    /\ \E j, o \in DOMAIN polls :
         /\ polls[j] = <<"IN_PROGRESS", "COMPLETED">>
         /\ added_round[j] = 2
         /\ polls[o] = <<"ERROR", "ERROR">>

\* C3: every call of poll_for_completion returns, and the loop test returns
\* at once when no job is outstanding or the elapsed time has reached max_wait.
C3_PollReturns ==
    /\ <>(pc = "process")
    /\ [][(pc = "while" /\ (job_names = <<>> \/ Elapsed >= 2 * max_wait_seconds))
           => pc' = "process"]_vars

\* a call returns at the timeout although a job's queries raised every time
C3_Witness ==
    /\ AtReturn
    /\ \E j \in DOMAIN polls :
         /\ Len(polls[j]) >= 2
         /\ \A n \in 1..Len(polls[j]) : polls[j][n] = "ERROR"
    /\ Elapsed >= 2 * max_wait_seconds

\* C4: when every query of every job returned IN_PROGRESS, the call returns
\* only once the elapsed time has reached max_wait, it returns an empty
\* completed list and the outstanding list is the input list.
C4_AllInProgressTimesOut ==
    [][(pc = "while" /\ pc' = "process" /\ input_names # <<>>
        /\ \A j \in DOMAIN polls : AllInProgress(polls[j]))
       => /\ completed_jobs' = <<>>
          /\ job_names = input_names
          /\ Elapsed >= 2 * max_wait_seconds]_vars

C4_Witness ==
    /\ AtReturn
    /\ Len(input_names) = 2
    /\ job_names = input_names
    /\ \A j \in DOMAIN polls : Len(polls[j]) >= 2 /\ AllInProgress(polls[j])
\* ------------------------------------------------------- claims on the runs
FileKeys(rows) == {rows[i].file_key : i \in 1..Len(rows)}

\* the run has listed its files and has not yet written to the results table
BeforeWrite == pc \in {"submit", "while", "for", "process"}

C6_RecordOnlyForCompleted ==
    LET recs == transcription_records
        Done(name) == \E i \in 1..Len(completed_jobs) :
                        /\ completed_jobs[i].job_name = name
                        /\ completed_jobs[i].status = "COMPLETED"
    IN /\ \A r \in 1..Len(recs) : Done(recs[r].job_name)
       /\ \A r1, r2 \in 1..Len(recs) :
            r1 # r2 => recs[r1].job_name # recs[r2].job_name
       /\ \A s \in 1..Len(submitted_jobs) :
            (submitted_jobs[s].status = "FAILED"
             \/ ~Done(submitted_jobs[s].job_name))
              => ~\E r \in 1..Len(recs) :
                    /\ recs[r].job_name = submitted_jobs[s].job_name
                    /\ recs[r].file_key = submitted_jobs[s].file_key

\* C7: two calls of start_transcribe_job for different file keys get different
\* job names, and the file a record names is the file its job was submitted for.
C7_UniqueJobNames ==
    /\ \A i, j \in 1..Len(start_calls) :
         start_calls[i].file_key # start_calls[j].file_key
           => start_calls[i].job_name # start_calls[j].job_name
    /\ \A r \in 1..Len(transcription_records) :
         \E s \in svc_jobs :
           /\ s.job_name = transcription_records[r].job_name
           /\ s.media = transcription_records[r].file_key

\* the listed keys that have an audio extension
AudioKeysListed == s3 \cap {KeyAX, KeyBX, KeyY}

C9_RejectionRecorded ==
    /\ Len(start_replies) = Len(submitted_jobs)
    /\ Len(submitted_jobs) <= Len(unprocessed_files)
    /\ pc \notin {"list", "submit"} => Len(submitted_jobs) = Len(unprocessed_files)
    /\ \A i \in 1..Len(submitted_jobs) :
         /\ submitted_jobs[i].file_key = unprocessed_files[i].file_key
         /\ start_replies[i] => submitted_jobs[i].status = "SUBMITTED"
         /\ ~start_replies[i] =>
              /\ submitted_jobs[i].status = "FAILED"
              /\ "error" \in DOMAIN submitted_jobs[i]

C9_Witness ==
    /\ pc = "while"
    /\ Len(submitted_jobs) = 3
    /\ start_replies = <<FALSE, TRUE, TRUE>>

\* the document lacks one of the parts the parser reads
Malformed(d) ==
    \/ "results" \notin DOMAIN d
    \/ "transcripts" \notin DOMAIN d.results
    \/ Len(d.results.transcripts) = 0
    \/ "transcript" \notin DOMAIN d.results.transcripts[1]
    \/ "items" \notin DOMAIN d.results
    \/ "speaker_labels" \notin DOMAIN d.results

\* the document has no transcript text
NoTranscriptText(d) ==
    \/ "results" \notin DOMAIN d
    \/ "transcripts" \notin DOMAIN d.results
    \/ Len(d.results.transcripts) = 0
    \/ "transcript" \notin DOMAIN d.results.transcripts[1]

\* C10: a COMPLETED job whose document is malformed or partially missing still
\* gets a record, with the empty string as text when the text is missing.
C10_MalformedStillRecorded ==
    (/\ Len(last_fetch) = 1
     /\ ~IsRaised(last_fetch[1].outcome)
     /\ Malformed(last_fetch[1].outcome.json))
      => /\ transcription_records # <<>>
         /\ LET rec == transcription_records[Len(transcription_records)]
            IN /\ rec.job_name = last_fetch[1].job_name
               /\ NoTranscriptText(last_fetch[1].outcome.json)
                    => rec.transcript_text = ""

\* ------------------------------------------------ claims on the parsing loop
IsPrefix(a, b) == Len(a) <= Len(b) /\ SubSeq(b, 1, Len(a)) = a

\* the job the loop has just handled was fetched and its document parsed
FetchedAndParsed ==
    /\ Len(last_fetch) = 1
    /\ ~IsRaised(ParseTranscriptionResult(last_fetch[1].outcome))

\* C11: a fetch or parse failure of one job does not block the others: the
\* loop reaches every job of completed_jobs, a COMPLETED job whose own fetch
\* and parse succeed gets a record in that iteration whatever happened to the
\* jobs before it, and no later iteration removes a record.
C11_FailureDoesNotBlock ==
    /\ <>(proc_i = Len(completed_jobs))
    /\ [][/\ IsPrefix(transcription_records, transcription_records')
          /\ (proc_i' = proc_i + 1 /\ FetchedAndParsed')
               => /\ Len(transcription_records') = Len(transcription_records) + 1
                  /\ transcription_records'[Len(transcription_records')].job_name
                       = completed_jobs[proc_i'].job_name]_vars

\* the first job's fetch or parse raised and the second job has its record
C11_Witness ==
    /\ proc_i = 2
    /\ HasTranscript(completed_jobs[1])
    /\ HasTranscript(completed_jobs[2])
    /\ FetchedAndParsed
    /\ Len(transcription_records) = 1
    /\ transcription_records[1].job_name = completed_jobs[2].job_name

\* ------------------------------------------------- claims on one invocation
\* the keys that have a row in the results table the Lister reads
RowKeys == IF table_exists THEN FileKeys(raw) ELSE {}

\* the calls of start_transcribe_job made by the current invocation
StartedNow == {i \in 1..Len(start_calls) : start_calls[i].invocation = invocation}

\* how often a job name is in the completed list or the outstanding list
Occurrences(name) ==
    Cardinality({i \in 1..Len(completed) : completed[i].job_name = name})
    + Cardinality({i \in 1..Len(job_names) : job_names[i] = name})

C13_BlocksAtMostMaxWait ==
    pc \in {"while", "for"} => Elapsed <= 2 * max_wait_seconds

\* C14: poll_for_completion performs no writes: no step of the call changes
\* the submitted_jobs records, the caller's list of job names, the bucket,
\* the results tables or the jobs the service holds.
C14_PollWritesNothing ==
    [][(pc \in {"call", "while", "for"})
         => (UNCHANGED <<submitted_jobs, input_names, storeVars, svc_jobs,
                         unprocessed_files, transcription_records>>)]_vars

\* a call about to return after rounds that moved one of two jobs to completed
C14_Witness ==
    /\ AtReturn
    /\ round >= 2
    /\ Len(input_names) = 2
    /\ Len(completed) = 1
    /\ job_names = <<input_names[2]>>
    /\ Cardinality(svc_jobs) = 2

\* ------------------------------------------- RateLimit-FoundationModels.py
\* The script that lists the serving endpoints of a workspace and sets the
\* AI Gateway rate limit of the foundation-model endpoints that are not
\* approved to zero.  An endpoint name is a sequence of tokens, the prefix
\* "databricks-" being one token; None and the empty name are <<>>.
MaxEndpoints == 3

Llama70b == <<"databricks-", "meta-llama-3-1-70b-instruct">>
Llama405b == <<"databricks-", "meta-llama-3-1-405b-instruct">>
ClaudeSonnet4 == <<"databricks-", "claude-sonnet-4">>

APPROVED_MODELS == <<Llama70b, Llama405b, ClaudeSonnet4>>

\* the names the endpoints of a workspace are drawn from: approved models,
\* foundation models that are not approved (one of them extends an approved
\* name), a custom endpoint with "databricks-" inside its name, and no name
EndpointNames ==
    {Llama70b, ClaudeSonnet4, <<"databricks-", "gpt-oss-20b">>,
     Llama70b \o <<"-v2">>, <<"my-", "databricks-", "model">>, None}

IsFoundationModelAnyName(name) ==
    IF \E i \in 1..Len(name) : name[i] = "databricks-"
    THEN <<TRUE, name>>
    ELSE <<FALSE, None>>

\* is_foundation_model_endpoint: (is_fm, model_name)
IsFoundationModelEndpoint(name) ==
    IF name # None /\ name[1] = "databricks-"
    THEN <<TRUE, name>>
    ELSE <<FALSE, None>>

IsApprovedByPrefix(model_name) ==
    \E i \in 1..Len(APPROVED_MODELS) :
      /\ Len(APPROVED_MODELS[i]) <= Len(model_name)
      /\ SubSeq(model_name, 1, Len(APPROVED_MODELS[i])) = APPROVED_MODELS[i]

\* model_name in APPROVED_MODELS
IsApproved(model_name) ==
    \E i \in 1..Len(APPROVED_MODELS) : APPROVED_MODELS[i] = model_name

\* rate_limits of set_ai_gateway_rate_limit_to_zero: one limit, calls=0
ZeroLimits == <<[key |-> "endpoint", renewal_period |-> "minute", calls |-> 0]>>

\* rate limits an endpoint can have before the script runs
PriorLimits == <<[key |-> "user", renewal_period |-> "minute", calls |-> 100]>>

\* the lists serving_endpoints.list() can return: endpoint names are unique
EndpointLists ==
    {q \in UNION {[1..n -> EndpointNames] : n \in 0..MaxEndpoints} :
       \A i, j \in 1..Len(q) : i # j => q[i] # q[j]}

notebookVars == <<pc, invocation, now, storeVars, listVars, submitVars, pollVars,
                  procVars>>

\* the script is started on a workspace; the notebook is not running
InitRate ==
    /\ pc = "off"
    /\ invocation = 1
    /\ now = 0
    /\ s3 = {}
    /\ table_exists = FALSE
    /\ raw = <<>>
    /\ call_transcripts = <<>>
    /\ start_calls = <<>>
    /\ svc_jobs = {}
    /\ Fresh
    /\ rl_pc = "start"
    /\ endpoints \in EndpointLists
    /\ endpoint_i = 0
    /\ restricted_count = 0
    /\ approved_count = 0
    /\ error_count = 0
    /\ \E g \in {None, PriorLimits} : ai_gateway = [n \in Range(endpoints) |-> g]
    /\ put_calls = <<>>
    /\ get_calls = <<>>

\* endpoints = w.serving_endpoints.list(): it returns the list or it raises,
\* and main logs and re-raises
RateList ==
    /\ rl_pc = "start"
    /\ \E listed \in BOOLEAN : rl_pc' = IF listed THEN "loop" ELSE "failed"
    /\ UNCHANGED <<endpoints, endpoint_i, restricted_count, approved_count,
                   error_count, ai_gateway, put_calls, get_calls>>
    /\ UNCHANGED notebookVars

\* set_ai_gateway_rate_limit_to_zero: True when put_ai_gateway returned,
\* False when it raised
SetAiGatewayRateLimitToZero(put_ok) == put_ok

\* ensure_ai_gateway_enabled: True when serving_endpoints.get returned,
\* whatever the endpoint's ai_gateway is, False when it raised
EnsureAiGatewayEnabled(get_ok, gateway) ==
    IF get_ok THEN (IF gateway # None THEN TRUE ELSE TRUE) ELSE FALSE

\* the loop body as it would be without the two "error_count += 1"
RateStepDropsErrors ==
    /\ rl_pc = "loop"
    /\ endpoint_i < Len(endpoints)
    /\ LET name == endpoints[endpoint_i + 1]
           fm == IsFoundationModelEndpoint(name)
           is_fm == fm[1]
           model_name == fm[2]
       IN IF is_fm
          THEN IF IsApproved(model_name)
               THEN \E get_ok \in BOOLEAN :
                      /\ get_calls' = Append(get_calls, [name |-> name, ok |-> get_ok])
                      /\ approved_count' =
                           IF EnsureAiGatewayEnabled(get_ok, ai_gateway[name])
                           THEN approved_count + 1
                           ELSE approved_count
                      /\ UNCHANGED <<restricted_count, error_count, ai_gateway,
                                     put_calls>>
               ELSE \E put_ok \in BOOLEAN :
                      /\ put_calls' = Append(put_calls, [name |-> name, ok |-> put_ok,
                                                         rate_limits |-> ZeroLimits])
                      /\ ai_gateway' = IF put_ok
                                       THEN [ai_gateway EXCEPT ![name] = ZeroLimits]
                                       ELSE ai_gateway
                      /\ restricted_count' =
                           IF SetAiGatewayRateLimitToZero(put_ok)
                           THEN restricted_count + 1
                           ELSE restricted_count
                      /\ UNCHANGED <<approved_count, error_count, get_calls>>
          ELSE UNCHANGED <<restricted_count, approved_count, error_count,
                           ai_gateway, put_calls, get_calls>>
    /\ endpoint_i' = endpoint_i + 1
    /\ UNCHANGED <<rl_pc, endpoints>>
    /\ UNCHANGED notebookVars

\* the loop body as it would be if a failed call ended the loop
RateStepStopsAtError ==
    /\ rl_pc = "loop"
    /\ endpoint_i < Len(endpoints)
    /\ LET name == endpoints[endpoint_i + 1]
           fm == IsFoundationModelEndpoint(name)
           is_fm == fm[1]
           model_name == fm[2]
       IN IF is_fm
          THEN IF IsApproved(model_name)
               THEN \E get_ok \in BOOLEAN :
                      /\ get_calls' = Append(get_calls, [name |-> name, ok |-> get_ok])
                      /\ IF EnsureAiGatewayEnabled(get_ok, ai_gateway[name])
                         THEN /\ approved_count' = approved_count + 1
                              /\ UNCHANGED <<error_count, rl_pc>>
                         ELSE /\ error_count' = error_count + 1
                              /\ rl_pc' = "failed"
                              /\ UNCHANGED approved_count
                      /\ UNCHANGED <<restricted_count, ai_gateway, put_calls>>
               ELSE \E put_ok \in BOOLEAN :
                      /\ put_calls' = Append(put_calls, [name |-> name, ok |-> put_ok,
                                                         rate_limits |-> ZeroLimits])
                      /\ ai_gateway' = IF put_ok
                                       THEN [ai_gateway EXCEPT ![name] = ZeroLimits]
                                       ELSE ai_gateway
                      /\ IF SetAiGatewayRateLimitToZero(put_ok)
                         THEN /\ restricted_count' = restricted_count + 1
                              /\ UNCHANGED <<error_count, rl_pc>>
                         ELSE /\ error_count' = error_count + 1
                              /\ rl_pc' = "failed"
                              /\ UNCHANGED restricted_count
                      /\ UNCHANGED <<approved_count, get_calls>>
          ELSE UNCHANGED <<restricted_count, approved_count, error_count,
                           ai_gateway, put_calls, get_calls, rl_pc>>
    /\ endpoint_i' = endpoint_i + 1
    /\ UNCHANGED endpoints
    /\ UNCHANGED notebookVars

\* one iteration of "for endpoint in endpoints"
RateStep ==
    /\ rl_pc = "loop"
    /\ endpoint_i < Len(endpoints)
    /\ LET name == endpoints[endpoint_i + 1]
           fm == IsFoundationModelEndpoint(name)
           is_fm == fm[1]
           model_name == fm[2]
       IN IF is_fm
          THEN IF IsApproved(model_name)
               THEN \E get_ok \in BOOLEAN :
                      /\ get_calls' = Append(get_calls, [name |-> name, ok |-> get_ok])
                      /\ IF EnsureAiGatewayEnabled(get_ok, ai_gateway[name])
                         THEN /\ approved_count' = approved_count + 1
                              /\ UNCHANGED error_count
                         ELSE /\ error_count' = error_count + 1
                              /\ UNCHANGED approved_count
                      /\ UNCHANGED <<restricted_count, ai_gateway, put_calls>>
               ELSE \E put_ok \in BOOLEAN :
                      /\ put_calls' = Append(put_calls, [name |-> name, ok |-> put_ok,
                                                         rate_limits |-> ZeroLimits])
                      /\ ai_gateway' = IF put_ok
                                       THEN [ai_gateway EXCEPT ![name] = ZeroLimits]
                                       ELSE ai_gateway
                      /\ IF SetAiGatewayRateLimitToZero(put_ok)
                         THEN /\ restricted_count' = restricted_count + 1
                              /\ UNCHANGED error_count
                         ELSE /\ error_count' = error_count + 1
                              /\ UNCHANGED restricted_count
                      /\ UNCHANGED <<approved_count, get_calls>>
          ELSE UNCHANGED <<restricted_count, approved_count, error_count,
                           ai_gateway, put_calls, get_calls>>
    /\ endpoint_i' = endpoint_i + 1
    /\ UNCHANGED <<rl_pc, endpoints>>
    /\ UNCHANGED notebookVars

\* the summary after the loop; main returns
RateSummary ==
    /\ rl_pc = "loop"
    /\ endpoint_i = Len(endpoints)
    /\ rl_pc' = "done"
    /\ UNCHANGED <<endpoints, endpoint_i, restricted_count, approved_count,
                   error_count, ai_gateway, put_calls, get_calls>>
    /\ UNCHANGED notebookVars

NextRate ==
    \/ RateList
    \/ RateStep
    \/ RateSummary

SpecRate == InitRate /\ [][NextRate]_vars

\* main keeps running: the script is one sequential thread
FairSpecRate == SpecRate /\ WF_vars(NextRate)

\* ------------------------------------------ claims on the rate-limit script
ApprovedNames == {Llama70b, Llama405b, ClaudeSonnet4}
StartsWithDatabricks(name) == Len(name) >= 1 /\ name[1] = "databricks-"

\* main has returned and no call of put_ai_gateway raised
FinishedWithoutUpdateError ==
    /\ rl_pc = "done"
    /\ \A c \in 1..Len(put_calls) : put_calls[c].ok

\* put_ai_gateway returned for the endpoint, with the single limit calls=0,
\* and the workspace holds that limit
SetToZero(name) ==
    /\ ai_gateway[name] = ZeroLimits
    /\ \E c \in 1..Len(put_calls) :
         /\ put_calls[c].name = name
         /\ put_calls[c].ok
         /\ Len(put_calls[c].rate_limits) = 1
         /\ put_calls[c].rate_limits[1].calls = 0

\* C15: when main finishes without an update error, every listed endpoint
\* whose name is not in APPROVED_MODELS has had its rate limit set to zero.
C15_AllUnapprovedZeroed ==
    FinishedWithoutUpdateError =>
      \A i \in 1..Len(endpoints) :
        endpoints[i] \notin ApprovedNames => SetToZero(endpoints[i])

\* C15 as amended: when main finishes without an update error, every listed
\* endpoint whose name starts with "databricks-" and is not in
\* APPROVED_MODELS has had its rate limit set to zero.
C15_UnapprovedFoundationModelsZeroed ==
    FinishedWithoutUpdateError =>
      \A i \in 1..Len(endpoints) :
        (StartsWithDatabricks(endpoints[i]) /\ endpoints[i] \notin ApprovedNames)
          => SetToZero(endpoints[i])

\* a finished run over an approved model, a model that extends an approved
\* name and a custom endpoint: only the second one has the zero limit
C15_Witness ==
    /\ FinishedWithoutUpdateError
    /\ endpoints = <<Llama70b, Llama70b \o <<"-v2">>, <<"my-", "databricks-", "model">> >>
    /\ SetToZero(endpoints[2])
    /\ ai_gateway[endpoints[1]] = PriorLimits
    /\ ai_gateway[endpoints[3]] = PriorLimits

\* C19: main calls put_ai_gateway only for endpoints whose name starts with
\* "databricks-" and is not in APPROVED_MODELS; the limits of an approved
\* endpoint and of an endpoint with another name are never set to zero.
C19_OnlyUnapprovedModified ==
    /\ \A c \in 1..Len(put_calls) :
         /\ StartsWithDatabricks(put_calls[c].name)
         /\ put_calls[c].name \notin ApprovedNames
    /\ \A n \in DOMAIN ai_gateway :
         (~StartsWithDatabricks(n) \/ n \in ApprovedNames)
           => ai_gateway[n] # ZeroLimits

\* a finished run whose only call of put_ai_gateway is for the one listed
\* foundation model that is not approved
C19_Witness ==
    /\ rl_pc = "done"
    /\ endpoints = << <<"my-", "databricks-", "model">>, ClaudeSonnet4,
                      <<"databricks-", "gpt-oss-20b">> >>
    /\ Len(put_calls) = 1
    /\ put_calls[1].name = endpoints[3]
    /\ Len(get_calls) = 1

WriteFailed == pc = "aborted" /\ transcription_records # <<>>

\* C17: a failure of the append of the records to the results table is not
\* caught: it ends the run, and neither the cells that derive
\* call_transcripts and speaker_utterances nor any later cell run in that
\* invocation.
C17_WriteFailureAborts ==
    [][/\ (pc = "process" /\ pc' # "process" /\ transcription_records # <<>>
           /\ raw' = raw)
           => pc' = "aborted"
       /\ WriteFailed
           => /\ invocation' = invocation + 1
              /\ pc' = "list"
              /\ UNCHANGED storeVars]_vars

\* the second run's append failed: the tables are as the first run left them
C17_Witness ==
    /\ WriteFailed
    /\ invocation = 2
    /\ raw # <<>>
    /\ call_transcripts = raw

\* ------------------------------------------------------ claims on the parser
\* the document has no speaker_labels key under results
NoSpeakerLabels(d) ==
    "results" \notin DOMAIN d \/ "speaker_labels" \notin DOMAIN d.results

\* C18: for every document without a speaker_labels key under results the
\* parser does not raise and returns an empty sequence of speaker segments,
\* whatever the other fields are; when speaker_labels is present, its
\* segments are returned in input order.
C18_NoSpeakerLabelsNoRaise ==
    (Len(last_fetch) = 1 /\ ~IsRaised(last_fetch[1].outcome)) =>
      LET d == last_fetch[1].outcome.json
          parsed == ParseTranscriptionResult(last_fetch[1].outcome)
      IN IF NoSpeakerLabels(d)
         THEN ~IsRaised(parsed) /\ parsed.speaker_labels = <<>>
         ELSE ~IsRaised(parsed) =>
                parsed.speaker_labels = Get(d.results.speaker_labels, "segments", <<>>)

\* ---------------------------------------------- the partition of the poll loop
\* the names are pairwise distinct
Distinct(names) == \A i, j \in 1..Len(names) : i # j => names[i] # names[j]

\* C20: with pairwise distinct input names, at the end of every round the
\* completed list and the outstanding list are disjoint and together hold
\* exactly the input names, each once; a job in the completed list is not
\* queried again, and the status recorded for it does not change.
C20_RoundPartition ==
    (pc \in {"while", "for"} /\ Distinct(input_names)) =>
      /\ pc = "while" =>
           /\ Names(completed) \cap Range(job_names) = {}
           /\ Names(completed) \cup Range(job_names) = Range(input_names)
           /\ Len(completed) + Len(job_names) = Len(input_names)
      /\ \A c \in 1..Len(completed) :
           LET h == polls[completed[c].job_name]
           IN /\ Len(h) = added_round[completed[c].job_name]
              /\ h[Len(h)] = completed[c].status
              /\ IsTerminal(completed[c].status)
              /\ \A n \in 1..(Len(h) - 1) : ~IsTerminal(h[n])
              /\ completed[c].job_name \notin Range(remaining)

\* after two rounds one of two jobs is in completed since round 1 and the
\* other one has been queried twice and is outstanding
C20_Witness ==
    /\ pc = "while"
    /\ round = 2
    /\ Len(input_names) = 2
    /\ Len(completed) = 1
    /\ added_round[completed[1].job_name] = 1
    /\ Len(polls[completed[1].job_name]) = 1
    /\ Len(job_names) = 1
    /\ Len(polls[job_names[1]]) = 2

\* ---------------------------------- further claims on the rate-limit script
\* the latest call of put_ai_gateway or of serving_endpoints.get raised
CallFailed(calls) == calls # <<>> /\ ~calls[Len(calls)].ok

\* C21: a failed update of one endpoint does not stop the run: when
\* put_ai_gateway, or the lookup of an approved endpoint, raises, main counts
\* one error and goes on to the next endpoint; the loop reaches the end of
\* the list, and every processed foundation-model endpoint that is not
\* approved has had its call of put_ai_gateway.
C21_FailureDoesNotStopRun ==
    /\ (rl_pc = "loop") ~> (rl_pc = "done")
    /\ [](\A i \in 1..endpoint_i :
            (StartsWithDatabricks(endpoints[i]) /\ endpoints[i] \notin ApprovedNames)
              => \E c \in 1..Len(put_calls) : put_calls[c].name = endpoints[i])
    /\ [][((Len(put_calls') > Len(put_calls) /\ CallFailed(put_calls'))
            \/ (Len(get_calls') > Len(get_calls) /\ CallFailed(get_calls')))
           => /\ error_count' = error_count + 1
              /\ UNCHANGED <<restricted_count, approved_count>>
              /\ rl_pc' = "loop"
              /\ endpoint_i' = endpoint_i + 1]_vars

\* a finished run in which the lookup of the approved endpoint and the first
\* update raised, and the endpoint after them was restricted
C21_Witness ==
    /\ rl_pc = "done"
    /\ endpoints = <<ClaudeSonnet4, <<"databricks-", "gpt-oss-20b">>,
                     Llama70b \o <<"-v2">> >>
    /\ Len(get_calls) = 1 /\ ~get_calls[1].ok
    /\ Len(put_calls) = 2 /\ ~put_calls[1].ok /\ put_calls[2].ok
    /\ error_count = 2
    /\ restricted_count = 1
    /\ ai_gateway[endpoints[3]] = ZeroLimits

\* the endpoints processed so far whose name starts with "databricks-"
FoundationModelsProcessed ==
    {i \in 1..endpoint_i : StartsWithDatabricks(endpoints[i])}

\* C22: at every point of main's loop restricted_count + approved_count +
\* error_count is the number of endpoints processed so far whose name starts
\* with "databricks-"; such an endpoint adds one to exactly one of the three
\* counters and any other endpoint leaves all three as they are.
C22_CountersSum ==
    /\ [](restricted_count + approved_count + error_count
            = Cardinality(FoundationModelsProcessed))
    /\ [][endpoint_i' = endpoint_i + 1
           => LET d == <<restricted_count' - restricted_count,
                         approved_count' - approved_count,
                         error_count' - error_count>>
              IN IF StartsWithDatabricks(endpoints[endpoint_i'])
                 THEN d \in {<<1, 0, 0>>, <<0, 1, 0>>, <<0, 0, 1>>}
                 ELSE d = <<0, 0, 0>>]_vars

\* the loop has processed three endpoints: one whose name does not start with
\* "databricks-", one foundation model whose call raised and one whose call
\* returned
C22_Witness ==
    /\ rl_pc = "loop"
    /\ endpoint_i = 3
    /\ \E i \in 1..3 : ~StartsWithDatabricks(endpoints[i])
    /\ Cardinality(FoundationModelsProcessed) = 2
    /\ error_count = 1
    /\ restricted_count + approved_count = 1
====
